---- MODULE Spec2Model ----
(***************************************************************************)
(* Model of the native audio pipeline primitives of soundcast:             *)
(*   - AudioRingBuffer  (src/native/src/audio_buffer.cc)                   *)
(*   - WhisperWorker    (src/native/src/whisper_worker.cc)                 *)
(*                                                                         *)
(* The ring buffer is modelled at the granularity of its individual memory *)
(* operations (own-cursor load, peer-cursor load, one step per copied      *)
(* sample, cursor store) for one producer thread and one consumer thread.  *)
(* The release store / acquire load pairs of the source order the sample   *)
(* copies before the cursor publication, so each step is atomic here.      *)
(*                                                                         *)
(* The worker is modelled with an explicit mutex owner, an explicit        *)
(* condition-variable wait state, one worker thread, one producer thread   *)
(* calling EnqueueAudio and one owner thread calling Stop / the destructor.*)
(***************************************************************************)
EXTENDS Integers, Sequences, FiniteSets, TLC

\* ---------------------------------------------------------------- bounds
\* Capacity of the ring buffer (480000 in the source, scaled down).
BUFFER_SIZE == 4
\* Largest `length` argument passed to Write / Read.
MaxLen == 4
\* Total number of samples the producer ever gets accepted.
MaxSamples == 8
\* Total number of EnqueueAudio calls.
MaxChunks == 3
\* Number of explicit Stop() calls (the destructor adds one more).
MaxStops == 2
\* Number of model contexts the inference engine hands out.
MaxLoads == 3
\* Number of transcriptions that reach the inference engine.
MaxInfer == 2
\* Number of Clear calls.
MaxClears == 2

VARIABLES
  buffer,     \* std::vector<float> buffer, indexed 0..BUFFER_SIZE-1
  writePos,   \* std::atomic<size_t> writePos
  readPos,    \* std::atomic<size_t> readPos
  producer,   \* the producer thread: position in Write and its locals
  consumer,   \* the consumer thread: position in Read and its locals
  observer,   \* a thread calling Available(): position and locals
  written,    \* history: samples accepted by completed Write calls
  readLog,    \* history: samples returned by completed Read calls
  audioQueue,    \* std::queue<AudioChunk> audioQueue
  queueMutex,    \* std::mutex queueMutex: "free" or the thread holding it
  stopRequested, \* bool stopRequested
  joined,        \* workerThread has been joined (joinable() is false)
  worker,        \* the worker thread: position in ProcessQueue and locals
  client,        \* a thread calling EnqueueAudio / GetQueueSize
  owner,         \* the thread calling Stop and the destructor
  enqueued,      \* history: chunks appended by EnqueueAudio
  processed,     \* history: chunks handed to the processing step
  cleared,       \* history: samples accepted / returned before the last Clear
  ctx,           \* struct whisper_context* ctx of the session (0 is nullptr)
  heap,          \* the model contexts handed out by the inference engine
  sessionLog     \* history: what the last session call did

ringVars ==
  <<buffer, writePos, readPos, producer, consumer, observer, written, readLog,
    cleared>>

sessionVars == <<ctx, heap, sessionLog>>

workerVars ==
  <<audioQueue, queueMutex, stopRequested, joined, worker, client, owner,
    enqueued, processed>>

vars == <<ringVars, workerVars, sessionVars>>

\* ------------------------------------------------------------ pure helpers
Min(a, b) == IF a < b THEN a ELSE b

\* Variant of WriteAvailable that does not keep one slot free.
WriteAvailable_NoSpareSlot(currentRead, currentWrite) ==
  IF currentRead > currentWrite
    THEN currentRead - currentWrite
    ELSE BUFFER_SIZE - currentWrite + currentRead

\* Write, lines 25-27: free space seen by the producer.
WriteAvailable(currentRead, currentWrite) ==
  IF currentRead > currentWrite
    THEN currentRead - currentWrite - 1
    ELSE BUFFER_SIZE - currentWrite + currentRead - 1

\* Variant of WriteSlot whose second memcpy is not rebased to buffer[0].
WriteSlot_NoRebase(currentWrite, length, i) ==
  LET firstPart == Min(length, BUFFER_SIZE - currentWrite)
  IN IF i < firstPart THEN currentWrite + i ELSE i

\* Write, lines 36-42: physical slot of the i-th (0-based) sample of data.
\* The first memcpy puts firstPart samples at buffer[currentWrite + i], the
\* second one puts the rest at buffer[i - firstPart].
WriteSlot(currentWrite, length, i) ==
  LET firstPart == Min(length, BUFFER_SIZE - currentWrite)
  IN IF i < firstPart THEN currentWrite + i ELSE i - firstPart

\* Write, line 45: the write cursor that is published.
WriteAdvance(currentWrite, length) == (currentWrite + length) % BUFFER_SIZE

\* Variant of ReadAvailable that forgets the wrapped part of the data.
ReadAvailable_NoWrap(currentRead, currentWrite) ==
  IF currentWrite >= currentRead
    THEN currentWrite - currentRead
    ELSE BUFFER_SIZE - currentRead

\* Read, lines 56-58: occupied samples seen by the consumer.
ReadAvailable(currentRead, currentWrite) ==
  IF currentWrite >= currentRead
    THEN currentWrite - currentRead
    ELSE BUFFER_SIZE - currentRead + currentWrite

\* Read, lines 67-73: physical slot the i-th (0-based) sample of dest is
\* copied from.
ReadSlot(currentRead, length, i) ==
  LET firstPart == Min(length, BUFFER_SIZE - currentRead)
  IN IF i < firstPart THEN currentRead + i ELSE i - firstPart

\* Read, line 76: the read cursor that is published.
ReadAdvance(currentRead, length) == (currentRead + length) % BUFFER_SIZE

\* Variant of Available that is off by one when the data wraps.
Available_WrapOffByOne(currentRead, currentWrite) ==
  IF currentWrite >= currentRead
    THEN currentWrite - currentRead
    ELSE BUFFER_SIZE - currentRead + currentWrite - 1

\* Available, lines 86-88.
Available(currentRead, currentWrite) ==
  IF currentWrite >= currentRead
    THEN currentWrite - currentRead
    ELSE BUFFER_SIZE - currentRead + currentWrite

\* ------------------------------------------------------------------ Init
\* `before` is a history field: the storage as it was when Write was called.
ProducerInit ==
  [pc |-> "idle", data |-> <<>>, requested |-> 0, length |-> 0,
   currentWrite |-> 0, currentRead |-> 0, i |-> 0, ret |-> 0,
   returned |-> FALSE, before |-> <<>>]

ConsumerInit ==
  [pc |-> "idle", dest |-> <<>>, requested |-> 0, length |-> 0,
   currentWrite |-> 0, currentRead |-> 0, i |-> 0, ret |-> 0,
   returned |-> FALSE]

\* `seen` is a history field: the occupancies (accepted minus returned
\* samples) the buffer went through while the current call was running.
ObserverInit ==
  [pc |-> "idle", currentRead |-> 0, ret |-> 0, returned |-> FALSE,
   seen |-> {}]

\* Samples accepted by Write and not yet returned by Read.
Occupancy == Len(written) - Len(readLog)

RingInit ==
  /\ buffer = [s \in 0..(BUFFER_SIZE - 1) |-> 0]
  /\ writePos = 0
  /\ readPos = 0
  /\ producer = ProducerInit
  /\ consumer = ConsumerInit
  /\ observer = ObserverInit
  /\ written = <<>>
  /\ readLog = <<>>
  /\ cleared = [w |-> 0, r |-> 0, n |-> 0]

\* History bookkeeping: a running Available() call witnesses occupancy `occ`.
Observe(occ) ==
  IF observer.pc = "idle" THEN observer
  ELSE [observer EXCEPT !.seen = @ \cup {occ}]

\* --------------------------------------------------- AudioRingBuffer::Write
\* The producer calls Write(data, length).  Samples are numbered in the
\* order the producer gets them accepted, so that every sample is distinct.
WriteCall(len) ==
  /\ producer.pc = "idle"
  /\ Len(written) + len <= MaxSamples
  /\ producer' = [ProducerInit EXCEPT
       !.pc = "loadWrite",
       !.data = [k \in 1..len |-> Len(written) + k],
       !.requested = len,
       !.length = len,
       !.before = buffer]
  /\ UNCHANGED <<buffer, writePos, readPos, consumer, observer, written, readLog, cleared,
                 workerVars, sessionVars>>

\* Write returns `n` (lines 33 and 47); its locals go out of scope.
WriteReturn(n) ==
  [ProducerInit EXCEPT
     !.ret = n, !.returned = TRUE, !.requested = producer.requested]

\* line 21
WriteLoadWritePos ==
  /\ producer.pc = "loadWrite"
  /\ producer' = [producer EXCEPT !.pc = "loadRead", !.currentWrite = writePos]
  /\ UNCHANGED <<buffer, writePos, readPos, consumer, observer, written, readLog, cleared,
                 workerVars, sessionVars>>

\* lines 22-33
WriteLoadReadPos ==
  /\ producer.pc = "loadRead"
  /\ LET available == WriteAvailable(readPos, producer.currentWrite)
         length == IF available < producer.length THEN available
                   ELSE producer.length
     IN producer' = IF length = 0
          THEN WriteReturn(0)
          ELSE [producer EXCEPT
                  !.currentRead = readPos, !.length = length, !.pc = "copy"]
  /\ UNCHANGED <<buffer, writePos, readPos, consumer, observer, written, readLog, cleared,
                 workerVars, sessionVars>>

\* lines 36-42, one sample per step
WriteCopy ==
  /\ producer.pc = "copy"
  /\ buffer' = [buffer EXCEPT
       ![WriteSlot(producer.currentWrite, producer.length, producer.i)] =
          producer.data[producer.i + 1]]
  /\ producer' = [producer EXCEPT
       !.i = @ + 1,
       !.pc = IF producer.i + 1 = producer.length THEN "store" ELSE "copy"]
  /\ UNCHANGED <<writePos, readPos, consumer, observer, written, readLog, cleared,
                 workerVars, sessionVars>>

\* lines 45-47
WriteStore ==
  /\ producer.pc = "store"
  /\ writePos' = WriteAdvance(producer.currentWrite, producer.length)
  /\ written' = written \o SubSeq(producer.data, 1, producer.length)
  /\ producer' = WriteReturn(producer.length)
  /\ observer' = Observe(Len(written') - Len(readLog))
  /\ UNCHANGED <<buffer, readPos, consumer, readLog, cleared,
                 workerVars, sessionVars>>

\* ---------------------------------------------------- AudioRingBuffer::Read
ReadCall(len) ==
  /\ consumer.pc = "idle"
  /\ consumer' = [ConsumerInit EXCEPT
       !.pc = "loadRead",
       !.requested = len,
       !.length = len]
  /\ UNCHANGED <<buffer, writePos, readPos, producer, observer, written, readLog, cleared,
                 workerVars, sessionVars>>

\* Read returns `n` (lines 64 and 78); its locals go out of scope.
ReadReturn(n) ==
  [ConsumerInit EXCEPT
     !.ret = n, !.returned = TRUE, !.requested = consumer.requested]

\* line 52
ReadLoadReadPos ==
  /\ consumer.pc = "loadRead"
  /\ consumer' = [consumer EXCEPT !.pc = "loadWrite", !.currentRead = readPos]
  /\ UNCHANGED <<buffer, writePos, readPos, producer, observer, written, readLog, cleared,
                 workerVars, sessionVars>>

\* lines 53-64
ReadLoadWritePos ==
  /\ consumer.pc = "loadWrite"
  /\ LET available == ReadAvailable(consumer.currentRead, writePos)
         length == IF available < consumer.length THEN available
                   ELSE consumer.length
     IN consumer' = IF length = 0
          THEN ReadReturn(0)
          ELSE [consumer EXCEPT
                  !.currentWrite = writePos, !.length = length, !.pc = "copy"]
  /\ UNCHANGED <<buffer, writePos, readPos, producer, observer, written, readLog, cleared,
                 workerVars, sessionVars>>

\* lines 67-73, one sample per step
ReadCopy ==
  /\ consumer.pc = "copy"
  /\ consumer' = [consumer EXCEPT
       !.dest = Append(@,
          buffer[ReadSlot(consumer.currentRead, consumer.length, consumer.i)]),
       !.i = @ + 1,
       !.pc = IF consumer.i + 1 = consumer.length THEN "store" ELSE "copy"]
  /\ UNCHANGED <<buffer, writePos, readPos, producer, observer, written, readLog, cleared,
                 workerVars, sessionVars>>

\* lines 76-78
ReadStore ==
  /\ consumer.pc = "store"
  /\ readPos' = ReadAdvance(consumer.currentRead, consumer.length)
  /\ readLog' = readLog \o consumer.dest
  /\ consumer' = ReadReturn(consumer.length)
  /\ observer' = Observe(Len(written) - Len(readLog'))
  /\ UNCHANGED <<buffer, writePos, producer, written, cleared,
                 workerVars, sessionVars>>

\* ----------------------------------------------- AudioRingBuffer::Available
AvailableCall ==
  /\ observer.pc = "idle"
  /\ observer' = [ObserverInit EXCEPT
       !.pc = "loadRead", !.seen = {Occupancy}]
  /\ UNCHANGED <<buffer, writePos, readPos, producer, consumer, written, readLog, cleared,
                 workerVars, sessionVars>>

\* line 83
AvailableLoadReadPos ==
  /\ observer.pc = "loadRead"
  /\ observer' = [observer EXCEPT !.pc = "loadWrite", !.currentRead = readPos]
  /\ UNCHANGED <<buffer, writePos, readPos, producer, consumer, written, readLog, cleared,
                 workerVars, sessionVars>>

\* lines 84-88
AvailableLoadWritePos ==
  /\ observer.pc = "loadWrite"
  /\ observer' = [ObserverInit EXCEPT
       !.ret = Available(observer.currentRead, writePos),
       !.returned = TRUE]
  /\ UNCHANGED <<buffer, writePos, readPos, producer, consumer, written, readLog, cleared,
                 workerVars, sessionVars>>

ProducerStep ==
  \/ \E len \in 0..MaxLen : WriteCall(len)
  \/ WriteLoadWritePos
  \/ WriteLoadReadPos
  \/ WriteCopy
  \/ WriteStore

ConsumerStep ==
  \/ \E len \in 0..MaxLen : ReadCall(len)
  \/ ReadLoadReadPos
  \/ ReadLoadWritePos
  \/ ReadCopy
  \/ ReadStore

\* --------------------------------------------------- AudioRingBuffer::Clear
\* Clear that forgets the read cursor.
Clear_OnlyWrite ==
  /\ cleared.n < MaxClears
  /\ producer.pc = "idle" /\ consumer.pc = "idle" /\ observer.pc = "idle"
  /\ writePos' = 0
  /\ cleared' = [w |-> Len(written), r |-> Len(readLog), n |-> cleared.n + 1]
  /\ UNCHANGED <<buffer, readPos, producer, consumer, observer, written,
                 readLog, workerVars, sessionVars>>

\* lines 92-95: both cursors are stored 0 (line 93, line 94). The caller
\* runs it with no Write, Read or Available in progress, so the two stores
\* are one step. `cleared` records how many samples had been accepted and
\* read when the buffer was cleared, and how many times it was.
Clear ==
  /\ cleared.n < MaxClears
  /\ producer.pc = "idle" /\ consumer.pc = "idle" /\ observer.pc = "idle"
  /\ writePos' = 0
  /\ readPos' = 0
  /\ cleared' = [w |-> Len(written), r |-> Len(readLog), n |-> cleared.n + 1]
  /\ UNCHANGED <<buffer, producer, consumer, observer, written, readLog,
                 workerVars, sessionVars>>

ObserverStep ==
  \/ AvailableCall
  \/ AvailableLoadReadPos
  \/ AvailableLoadWritePos

\* ======================================================================
\* WhisperWorker (whisper_worker.cc)
\* ======================================================================
\* AudioChunk constructor, lines 17-18: an owned copy of the first `length`
\* samples and the timestamp.
AudioChunk(audioData, length, ts) ==
  [data |-> SubSeq(audioData, 1, length), timestamp |-> ts]

NoChunk == [data |-> <<>>, timestamp |-> 0]

\* Sample spans handed to EnqueueAudio (the worker never looks inside).
AudioInputs == {<<2, 3>>}

\* `sawStop` and `exitLine` are history fields: the worker has read
\* stopRequested as true, and the line whose test made it leave the loop.
WorkerThreadInit ==
  [pc |-> "loop", chunk |-> NoChunk, sawStop |-> FALSE, exitLine |-> 0]

\* `afterStop` is a history field: the last EnqueueAudio call began after a
\* Stop had returned.
ClientInit ==
  [pc |-> "idle", data |-> <<>>, timestamp |-> 0, ret |-> 0,
   afterStop |-> FALSE]

\* `calledAt` is a history field: where the worker was when Stop was called.
OwnerInit ==
  [pc |-> "idle", inDestructor |-> FALSE, stopCalls |-> 0,
   stopReturns |-> 0, calledAt |-> "none"]

\* Constructor, lines 48-50: flag cleared, empty queue, thread started.
WorkerInit ==
  /\ audioQueue = <<>>
  /\ queueMutex = "free"
  /\ stopRequested = FALSE
  /\ joined = FALSE
  /\ worker = WorkerThreadInit
  /\ client = ClientInit
  /\ owner = OwnerInit
  /\ enqueued = <<>>
  /\ processed = <<>>

\* ------------------------------------------------ WhisperWorker::ProcessQueue
\* Line 30 reads stopRequested without holding queueMutex while Stop writes
\* it under the mutex: the read may return the value before or after a
\* store it is not ordered with.
LoopTopReads == IF stopRequested THEN {TRUE, FALSE} ELSE {FALSE}

\* line 30: while (!stopRequested)
WorkerLoopTop ==
  /\ worker.pc = "loop"
  /\ \E seen \in LoopTopReads :
       worker' = IF seen
         THEN [worker EXCEPT
                 !.pc = "exited", !.sawStop = TRUE, !.exitLine = 30]
         ELSE [worker EXCEPT !.pc = "lock"]
  /\ UNCHANGED <<audioQueue, queueMutex, stopRequested, joined, client, owner,
                 enqueued, processed, ringVars, sessionVars>>

\* line 31: std::unique_lock lock(queueMutex)
WorkerLock ==
  /\ worker.pc = "lock"
  /\ queueMutex = "free"
  /\ queueMutex' = "worker"
  /\ worker' = [worker EXCEPT !.pc = "wait"]
  /\ UNCHANGED <<audioQueue, stopRequested, joined, client, owner,
                 enqueued, processed, ringVars, sessionVars>>

\* line 32: the predicate of queueCV.wait, evaluated with the mutex held
WaitPredicate == audioQueue # <<>> \/ stopRequested

\* line 32: queueCV.wait(lock, pred): return if the predicate holds,
\* otherwise release the mutex and suspend, atomically.
WorkerWait ==
  /\ worker.pc = "wait"
  /\ queueMutex = "worker"
  /\ IF WaitPredicate
       THEN /\ worker' = [worker EXCEPT
                 !.pc = "checkStop",
                 !.sawStop = (audioQueue = <<>> /\ stopRequested)]
            /\ UNCHANGED queueMutex
       ELSE /\ worker' = [worker EXCEPT !.pc = "blocked"]
            /\ queueMutex' = "free"
  /\ UNCHANGED <<audioQueue, stopRequested, joined, client, owner,
                 enqueued, processed, ringVars, sessionVars>>

\* line 32: a woken waiter re-acquires the mutex before testing the predicate
WorkerReacquire ==
  /\ worker.pc = "woken"
  /\ queueMutex = "free"
  /\ queueMutex' = "worker"
  /\ worker' = [worker EXCEPT !.pc = "wait"]
  /\ UNCHANGED <<audioQueue, stopRequested, joined, client, owner,
                 enqueued, processed, ringVars, sessionVars>>

\* line 32: condition_variable::wait may wake up without a notification
SpuriousWakeup ==
  /\ worker.pc = "blocked"
  /\ worker' = [worker EXCEPT !.pc = "woken"]
  /\ UNCHANGED <<audioQueue, queueMutex, stopRequested, joined, client, owner,
                 enqueued, processed, ringVars, sessionVars>>

\* Variant of WorkerCheckStop that leaves the loop only once the queue has
\* been drained.
WorkerCheckStop_Drain ==
  /\ worker.pc = "checkStop"
  /\ queueMutex = "worker"
  /\ IF stopRequested /\ audioQueue = <<>>
       THEN /\ worker' = [worker EXCEPT
                 !.pc = "exited", !.sawStop = TRUE, !.exitLine = 34]
            /\ queueMutex' = "free"
       ELSE /\ worker' = [worker EXCEPT
                 !.pc = "pop", !.sawStop = stopRequested]
            /\ UNCHANGED queueMutex
  /\ UNCHANGED <<audioQueue, stopRequested, joined, client, owner,
                 enqueued, processed, ringVars, sessionVars>>

\* line 34: if (stopRequested) break;  leaving the loop body destroys the
\* unique_lock, which releases the mutex, and ProcessQueue returns.
WorkerCheckStop ==
  /\ worker.pc = "checkStop"
  /\ queueMutex = "worker"
  /\ IF stopRequested
       THEN /\ worker' = [worker EXCEPT
                 !.pc = "exited", !.sawStop = TRUE, !.exitLine = 34]
            /\ queueMutex' = "free"
       ELSE /\ worker' = [worker EXCEPT !.pc = "pop"]
            /\ UNCHANGED queueMutex
  /\ UNCHANGED <<audioQueue, stopRequested, joined, client, owner,
                 enqueued, processed, ringVars, sessionVars>>

\* line 37: audioQueue.front()
Front(q) == Head(q)

\* Variant of PopFront that leaves the head in the queue.
PopFront_Keep(q) == q

\* line 38: audioQueue.pop()
PopFront(q) == Tail(q)

\* Variant of WorkerPop that keeps the mutex while the chunk is processed.
WorkerPop_KeepLock ==
  /\ worker.pc = "pop"
  /\ queueMutex = "worker"
  /\ IF audioQueue # <<>>
       THEN /\ worker' = [worker EXCEPT
                 !.pc = "process", !.chunk = Front(audioQueue)]
            /\ audioQueue' = PopFront(audioQueue)
            /\ UNCHANGED queueMutex
       ELSE /\ worker' = [worker EXCEPT !.pc = "loop"]
            /\ UNCHANGED audioQueue
            /\ queueMutex' = "free"
  /\ UNCHANGED <<stopRequested, joined, client, owner,
                 enqueued, processed, ringVars, sessionVars>>

\* lines 36-39: copy the head, pop it, unlock; with an empty queue the body
\* is skipped and the unique_lock releases the mutex at the end of the
\* iteration.
WorkerPop ==
  /\ worker.pc = "pop"
  /\ queueMutex = "worker"
  /\ IF audioQueue # <<>>
       THEN /\ worker' = [worker EXCEPT
                 !.pc = "process", !.chunk = Front(audioQueue)]
            /\ audioQueue' = PopFront(audioQueue)
       ELSE /\ worker' = [worker EXCEPT !.pc = "loop"]
            /\ UNCHANGED audioQueue
  /\ queueMutex' = "free"
  /\ UNCHANGED <<stopRequested, joined, client, owner,
                 enqueued, processed, ringVars, sessionVars>>

\* lines 41-42: the processing step (a placeholder in the source), run
\* without the mutex; then back to the loop condition.
WorkerProcess ==
  /\ worker.pc = "process"
  /\ processed' = Append(processed, worker.chunk)
  /\ worker' = [worker EXCEPT !.pc = "loop", !.chunk = NoChunk]
  /\ UNCHANGED <<audioQueue, queueMutex, stopRequested, joined, client, owner,
                 enqueued, ringVars, sessionVars>>

\* ------------------------------------------------ WhisperWorker::EnqueueAudio
\* The object is alive: its destructor has not begun.
Alive == owner.pc # "destroyed" /\ ~owner.inDestructor

EnqueueAudioCall(data) ==
  /\ client.pc = "idle"
  /\ Alive
  /\ Len(enqueued) < MaxChunks
  /\ client' = [client EXCEPT
       !.pc = "e_lock", !.data = data, !.timestamp = Len(enqueued) + 1,
       !.afterStop = (owner.stopReturns > 0)]
  /\ UNCHANGED <<audioQueue, queueMutex, stopRequested, joined, worker, owner,
                 enqueued, processed, ringVars, sessionVars>>

\* line 57: std::lock_guard lock(queueMutex)
EnqueueLock ==
  /\ client.pc = "e_lock"
  /\ queueMutex = "free"
  /\ queueMutex' = "client"
  /\ client' = [client EXCEPT !.pc = "e_emplace"]
  /\ UNCHANGED <<audioQueue, stopRequested, joined, worker, owner,
                 enqueued, processed, ringVars, sessionVars>>

\* queueCV.notify_one / notify_all with a single waiter: a suspended worker
\* becomes runnable.
Notified(w) == IF w.pc = "blocked" THEN [w EXCEPT !.pc = "woken"] ELSE w

\* Variant of EnqueueEmplace that drops the chunk once a stop was requested.
EnqueueEmplace_RejectAfterStop ==
  /\ client.pc = "e_emplace"
  /\ queueMutex = "client"
  /\ LET chunk == AudioChunk(client.data, Len(client.data), client.timestamp)
     IN /\ audioQueue' = IF stopRequested THEN audioQueue
                         ELSE Append(audioQueue, chunk)
        /\ enqueued' = Append(enqueued, chunk)
  /\ worker' = Notified(worker)
  /\ client' = [client EXCEPT !.pc = "e_unlock"]
  /\ UNCHANGED <<queueMutex, stopRequested, joined, owner, processed,
                 ringVars, sessionVars>>

\* Variant of EnqueueEmplace that does not notify the condition variable.
EnqueueEmplace_NoNotify ==
  /\ client.pc = "e_emplace"
  /\ queueMutex = "client"
  /\ LET chunk == AudioChunk(client.data, Len(client.data), client.timestamp)
     IN /\ audioQueue' = Append(audioQueue, chunk)
        /\ enqueued' = Append(enqueued, chunk)
  /\ client' = [client EXCEPT !.pc = "e_unlock"]
  /\ UNCHANGED <<queueMutex, stopRequested, joined, owner, processed, worker,
                 ringVars, sessionVars>>

\* lines 58-59: audioQueue.emplace(data, length, timestamp); notify_one()
EnqueueEmplace ==
  /\ client.pc = "e_emplace"
  /\ queueMutex = "client"
  /\ LET chunk == AudioChunk(client.data, Len(client.data), client.timestamp)
     IN /\ audioQueue' = Append(audioQueue, chunk)
        /\ enqueued' = Append(enqueued, chunk)
  /\ worker' = Notified(worker)
  /\ client' = [client EXCEPT !.pc = "e_unlock"]
  /\ UNCHANGED <<queueMutex, stopRequested, joined, owner, processed, ringVars, sessionVars>>

\* line 60: the lock_guard releases the mutex, EnqueueAudio returns
EnqueueUnlock ==
  /\ client.pc = "e_unlock"
  /\ queueMutex = "client"
  /\ queueMutex' = "free"
  /\ client' = [client EXCEPT !.pc = "idle", !.data = <<>>, !.timestamp = 0]
  /\ UNCHANGED <<audioQueue, stopRequested, joined, worker, owner,
                 enqueued, processed, ringVars, sessionVars>>

\* ------------------------------------------------ WhisperWorker::GetQueueSize
GetQueueSizeCall ==
  /\ client.pc = "idle"
  /\ Alive
  /\ client' = [client EXCEPT !.pc = "g_lock"]
  /\ UNCHANGED <<audioQueue, queueMutex, stopRequested, joined, worker, owner,
                 enqueued, processed, ringVars, sessionVars>>

\* line 74
GetQueueSizeLock ==
  /\ client.pc = "g_lock"
  /\ queueMutex = "free"
  /\ queueMutex' = "client"
  /\ client' = [client EXCEPT !.pc = "g_size"]
  /\ UNCHANGED <<audioQueue, stopRequested, joined, worker, owner,
                 enqueued, processed, ringVars, sessionVars>>

\* lines 75-76: read the size, release the mutex, return
GetQueueSizeReturn ==
  /\ client.pc = "g_size"
  /\ queueMutex = "client"
  /\ queueMutex' = "free"
  /\ client' = [client EXCEPT !.pc = "idle", !.ret = Len(audioQueue)]
  /\ UNCHANGED <<audioQueue, stopRequested, joined, worker, owner,
                 enqueued, processed, ringVars, sessionVars>>

\* -------------------------------------------------------- WhisperWorker::Stop
StopCall ==
  /\ owner.pc = "idle"
  /\ owner.stopCalls < MaxStops
  /\ owner' = [owner EXCEPT
       !.pc = "s_lock", !.stopCalls = @ + 1, !.calledAt = worker.pc]
  /\ UNCHANGED <<audioQueue, queueMutex, stopRequested, joined, worker, client,
                 enqueued, processed, ringVars, sessionVars>>

\* lines 52-54: the destructor calls Stop(); no other call is in progress on
\* an object that is being destroyed.
DestructorCall ==
  /\ owner.pc = "idle"
  /\ client.pc = "idle"
  /\ owner' = [owner EXCEPT
       !.pc = "s_lock", !.inDestructor = TRUE, !.calledAt = worker.pc]
  /\ UNCHANGED <<audioQueue, queueMutex, stopRequested, joined, worker, client,
                 enqueued, processed, ringVars, sessionVars>>

\* line 64
StopLock ==
  /\ owner.pc = "s_lock"
  /\ queueMutex = "free"
  /\ queueMutex' = "owner"
  /\ owner' = [owner EXCEPT !.pc = "s_set"]
  /\ UNCHANGED <<audioQueue, stopRequested, joined, worker, client,
                 enqueued, processed, ringVars, sessionVars>>

\* lines 65-66: set the flag, the lock_guard releases the mutex
StopSetFlag ==
  /\ owner.pc = "s_set"
  /\ queueMutex = "owner"
  /\ stopRequested' = TRUE
  /\ queueMutex' = "free"
  /\ owner' = [owner EXCEPT !.pc = "s_notify"]
  /\ UNCHANGED <<audioQueue, joined, worker, client,
                 enqueued, processed, ringVars, sessionVars>>

\* Variant of StopNotifyAll that wakes nobody.
StopNotifyAll_Skip ==
  /\ owner.pc = "s_notify"
  /\ owner' = [owner EXCEPT !.pc = "s_joinable"]
  /\ UNCHANGED <<audioQueue, queueMutex, stopRequested, joined, worker, client,
                 enqueued, processed, ringVars, sessionVars>>

\* line 67: queueCV.notify_all()
StopNotifyAll ==
  /\ owner.pc = "s_notify"
  /\ worker' = Notified(worker)
  /\ owner' = [owner EXCEPT !.pc = "s_joinable"]
  /\ UNCHANGED <<audioQueue, queueMutex, stopRequested, joined, client,
                 enqueued, processed, ringVars, sessionVars>>

\* Stop returns (line 71); a Stop called by the destructor ends the object.
StopReturn(o) ==
  [o EXCEPT
     !.pc = IF o.inDestructor THEN "destroyed" ELSE "idle",
     !.inDestructor = FALSE,
     !.stopReturns = @ + 1]

\* Variant of StopJoinable that joins without testing joinable().
StopJoinable_AlwaysJoin ==
  /\ owner.pc = "s_joinable"
  /\ owner' = [owner EXCEPT !.pc = "s_join"]
  /\ UNCHANGED <<audioQueue, queueMutex, stopRequested, joined, worker, client,
                 enqueued, processed, ringVars, sessionVars>>

\* line 68: if (workerThread.joinable())
StopJoinable ==
  /\ owner.pc = "s_joinable"
  /\ owner' = IF ~joined THEN [owner EXCEPT !.pc = "s_join"]
              ELSE StopReturn(owner)
  /\ UNCHANGED <<audioQueue, queueMutex, stopRequested, joined, worker, client,
                 enqueued, processed, ringVars, sessionVars>>

\* Variant of StopJoin that does not wait for ProcessQueue to return.
StopJoin_NoWait ==
  /\ owner.pc = "s_join"
  /\ joined' = TRUE
  /\ owner' = StopReturn(owner)
  /\ UNCHANGED <<audioQueue, queueMutex, stopRequested, worker, client,
                 enqueued, processed, ringVars, sessionVars>>

\* Variant of StopJoin that re-arms the flag once the thread is joined.
StopJoin_ResetFlag ==
  /\ owner.pc = "s_join"
  /\ worker.pc = "exited"
  /\ joined' = TRUE
  /\ stopRequested' = FALSE
  /\ owner' = StopReturn(owner)
  /\ UNCHANGED <<audioQueue, queueMutex, worker, client,
                 enqueued, processed, ringVars, sessionVars>>

\* line 69: workerThread.join() returns once ProcessQueue has returned
StopJoin ==
  /\ owner.pc = "s_join"
  /\ worker.pc = "exited"
  /\ joined' = TRUE
  /\ owner' = StopReturn(owner)
  /\ UNCHANGED <<audioQueue, queueMutex, stopRequested, worker, client,
                 enqueued, processed, ringVars, sessionVars>>

WorkerStep ==
  \/ WorkerLoopTop
  \/ WorkerLock
  \/ WorkerWait
  \/ WorkerReacquire
  \/ WorkerCheckStop
  \/ WorkerPop
  \/ WorkerProcess

ClientStep ==
  \/ EnqueueLock
  \/ EnqueueEmplace
  \/ EnqueueUnlock
  \/ GetQueueSizeLock
  \/ GetQueueSizeReturn

OwnerStep ==
  \/ StopLock
  \/ StopSetFlag
  \/ StopNotifyAll
  \/ StopJoinable
  \/ StopJoin

\* Calls made by the environment.
WorkerCalls ==
  \/ \E data \in AudioInputs : EnqueueAudioCall(data)
  \/ GetQueueSizeCall
  \/ StopCall
  \/ DestructorCall

WorkerNext ==
  WorkerStep \/ ClientStep \/ OwnerStep \/ WorkerCalls \/ SpuriousWakeup

\* ======================================================================
\* WhisperSession (whisper_addon.cc)
\* ======================================================================
\* The host runtime calls the session from one thread, one call at a time,
\* so every handler is one step.  Context 0 stands for nullptr.
CtxIds == 1..MaxLoads

\* Constructor, lines 43-53: ctx(nullptr).
SessionInit ==
  /\ ctx = 0
  /\ heap = [c \in CtxIds |-> [allocated |-> FALSE, frees |-> 0]]
  /\ sessionLog = [op |-> "construct", result |-> "ok", inferred |-> <<>>,
                   misuse |-> FALSE, destructed |-> FALSE]

\* A context that was handed out by a load and not freed since.
Live(h, c) == c \in CtxIds /\ h[c].allocated /\ h[c].frees = 0

\* whisper_free(c): the engine releases context c.
WhisperFree(h, c) == [h EXCEPT ![c].frees = @ + 1]

\* whisper_init_from_file_with_params: a fresh context, or nullptr.
NextCtx(h) == Cardinality({c \in CtxIds : h[c].allocated}) + 1

\* LoadModel, lines 62-78.
LoadModel(ok) ==
  /\ ~sessionLog.destructed
  /\ ok => NextCtx(heap) \in CtxIds
  /\ LET freed == IF ctx # 0 THEN WhisperFree(heap, ctx) ELSE heap
         new == IF ok THEN NextCtx(heap) ELSE 0
     IN /\ heap' = IF ok THEN [freed EXCEPT ![new].allocated = TRUE]
                   ELSE freed
        /\ ctx' = new
        /\ sessionLog' = [sessionLog EXCEPT
             !.op = "loadModel",
             !.result = IF ok THEN "true" ELSE "Failed to load model",
             !.misuse = @ \/ (ctx # 0 /\ ~Live(heap, ctx))]
  /\ UNCHANGED <<ringVars, workerVars>>

\* Transcribe, lines 80-144: whisper_full and the segment accessors run on
\* ctx once both argument checks have passed.
Transcribe(hasBuffer, inferOk) ==
  /\ ~sessionLog.destructed
  /\ (ctx # 0 /\ hasBuffer) => Len(sessionLog.inferred) < MaxInfer
  /\ sessionLog' =
       IF ctx = 0
         THEN [sessionLog EXCEPT
                 !.op = "transcribe", !.result = "Model not loaded"]
       ELSE IF ~hasBuffer
         THEN [sessionLog EXCEPT
                 !.op = "transcribe", !.result = "Audio buffer required"]
       ELSE [sessionLog EXCEPT
               !.op = "transcribe",
               !.result = IF inferOk THEN "segments"
                          ELSE "Transcription failed",
               !.inferred = Append(@, ctx),
               !.misuse = @ \/ ~Live(heap, ctx)]
  /\ UNCHANGED <<ctx, heap, ringVars, workerVars>>

\* Variant of Destroy that frees the context and keeps the pointer.
Destroy_KeepPointer ==
  /\ ~sessionLog.destructed
  /\ IF ctx # 0
       THEN /\ ctx \in CtxIds => heap[ctx].frees < 2
            /\ heap' = WhisperFree(heap, ctx)
            /\ sessionLog' = [sessionLog EXCEPT
                 !.op = "destroy", !.result = "ok",
                 !.misuse = @ \/ ~Live(heap, ctx)]
       ELSE /\ heap' = heap
            /\ sessionLog' = [sessionLog EXCEPT
                 !.op = "destroy", !.result = "ok"]
  /\ UNCHANGED <<ctx, ringVars, workerVars>>

\* Destroy, lines 146-151.
Destroy ==
  /\ ~sessionLog.destructed
  /\ IF ctx # 0
       THEN /\ heap' = WhisperFree(heap, ctx)
            /\ ctx' = 0
            /\ sessionLog' = [sessionLog EXCEPT
                 !.op = "destroy", !.result = "ok",
                 !.misuse = @ \/ ~Live(heap, ctx)]
       ELSE /\ UNCHANGED <<heap, ctx>>
            /\ sessionLog' = [sessionLog EXCEPT
                 !.op = "destroy", !.result = "ok"]
  /\ UNCHANGED <<ringVars, workerVars>>

\* ~WhisperSession, lines 55-60; no call follows it.
SessionDestructor ==
  /\ ~sessionLog.destructed
  /\ IF ctx # 0
       THEN /\ heap' = WhisperFree(heap, ctx)
            /\ ctx' = 0
            /\ sessionLog' = [sessionLog EXCEPT
                 !.op = "destructor", !.result = "ok", !.destructed = TRUE,
                 !.misuse = @ \/ ~Live(heap, ctx)]
       ELSE /\ UNCHANGED <<heap, ctx>>
            /\ sessionLog' = [sessionLog EXCEPT
                 !.op = "destructor", !.result = "ok", !.destructed = TRUE]
  /\ UNCHANGED <<ringVars, workerVars>>

SessionNext ==
  \/ \E ok \in BOOLEAN : LoadModel(ok)
  \/ \E hasBuffer \in BOOLEAN, inferOk \in BOOLEAN :
       Transcribe(hasBuffer, inferOk)
  \/ Destroy
  \/ SessionDestructor

Init == RingInit /\ WorkerInit /\ SessionInit

SpecSession == Init /\ [][SessionNext]_vars

SpecWorker == Init /\ [][WorkerNext]_vars

\* Fair scheduling: every thread that can take a step of a call in progress
\* eventually takes it, and the processing step returns.  New calls and
\* spurious wake-ups are not forced.  A thread that finds the mutex free
\* again and again eventually gets it.
SpecWorkerFair ==
  /\ Init /\ [][WorkerNext]_vars
  /\ WF_vars(WorkerStep)
  /\ WF_vars(ClientStep)
  /\ WF_vars(OwnerStep)
  /\ SF_vars(WorkerLock) /\ SF_vars(WorkerReacquire) /\ SF_vars(StopLock)

\* Producer and consumer only.
RingNext == ProducerStep \/ ConsumerStep

SpecRing == Init /\ [][RingNext]_vars

\* Producer, consumer and a third thread polling Available().
RingObsNext == ProducerStep \/ ConsumerStep \/ ObserverStep

SpecRingObs == Init /\ [][RingObsNext]_vars

\* Producer and consumer, with Clear called between their calls.
RingClearNext == ProducerStep \/ ConsumerStep \/ Clear

SpecRingClear == Init /\ [][RingClearNext]_vars

\* ======================================================================
\* Properties of the ring buffer
\* ======================================================================
IsPrefix(s, t) == Len(s) <= Len(t) /\ SubSeq(t, 1, Len(s)) = s

\* No Write and no Read is in progress.
Quiescent == producer.pc = "idle" /\ consumer.pc = "idle"

\* C1: under every interleaving of the producer's and the consumer's steps,
\* the samples returned by the Read calls so far, concatenated, are a prefix
\* of the samples accepted by the Write calls so far, in the same order.
C1_ReadsArePrefixOfWrites == IsPrefix(readLog, written)

\* A Read that wrapped past the physical end of storage has returned, after
\* more samples went through the buffer than it can hold.
C1_Witness ==
  /\ consumer.pc = "idle" /\ consumer.returned
  /\ readPos > 0 /\ readPos < consumer.ret
  /\ Len(readLog) > BUFFER_SIZE

\* C2: both cursors stay in [0, BUFFER_SIZE), at most BUFFER_SIZE - 1
\* samples are occupied, equal cursors always mean an empty buffer, and a
\* Write that accepts a sample never leaves writePos equal to readPos.
C2_CursorsNeverCollide ==
  /\ [](/\ writePos \in 0..(BUFFER_SIZE - 1)
        /\ readPos \in 0..(BUFFER_SIZE - 1)
        /\ Occupancy \in 0..(BUFFER_SIZE - 1)
        /\ (writePos = readPos => Occupancy = 0))
  /\ [][written' # written => writePos' # readPos']_vars

\* The buffer is full and the write cursor has wrapped behind the read one.
C2_Witness ==
  /\ Occupancy = BUFFER_SIZE - 1
  /\ writePos < readPos
  /\ producer.pc = "idle" /\ producer.returned /\ producer.ret > 0

\* The cursors and the number of samples a returning Write must report:
\* min(length, BUFFER_SIZE - 1 - occupied), occupied taken from the two
\* cursors the call loaded.
WriteExpected ==
  LET cw == producer.currentWrite
      cr == IF producer.pc = "loadRead" THEN readPos ELSE producer.currentRead
      occupied == (cw - cr) % BUFFER_SIZE
  IN Min(producer.requested, BUFFER_SIZE - 1 - occupied)

\* C3: Write returns min(length, BUFFER_SIZE - 1 - occupied), accepts and
\* stores exactly the leading that-many samples of data and touches no other
\* slot; when it returns 0 neither cursor nor any stored sample changes; and
\* while BUFFER_SIZE - 1 samples are held no sample is accepted.
C3_WriteTruncates ==
  /\ [][(producer.pc # "idle" /\ producer'.pc = "idle") =>
         LET n == WriteExpected
             cw == producer.currentWrite
             slots == {(cw + k) % BUFFER_SIZE : k \in 0..(n - 1)}
         IN /\ producer'.ret = n
            /\ written' = written \o [k \in 1..n |-> producer.data[k]]
            /\ \A k \in 1..n :
                 buffer'[(cw + k - 1) % BUFFER_SIZE] = producer.data[k]
            /\ \A t \in (0..(BUFFER_SIZE - 1)) \ slots :
                 buffer'[t] = producer.before[t]
            /\ (n = 0 => /\ writePos' = writePos
                         /\ readPos' = readPos
                         /\ buffer' = producer.before)]_vars
  /\ [][Occupancy = BUFFER_SIZE - 1 => written' = written]_vars

\* A Write asked to store samples into a full buffer has returned 0.
C3_Witness ==
  /\ producer.pc = "idle" /\ producer.returned
  /\ producer.requested > 0 /\ producer.ret = 0
  /\ Occupancy = BUFFER_SIZE - 1
  /\ Available(readPos, writePos) = BUFFER_SIZE - 1

\* The number of samples a returning Read must report: min(length, occupied),
\* occupied taken from the two cursors the call loaded.
ReadExpected ==
  LET cr == consumer.currentRead
      cw == IF consumer.pc = "loadWrite" THEN writePos
            ELSE consumer.currentWrite
  IN Min(consumer.requested, (cw - cr) % BUFFER_SIZE)

\* C4: Read returns min(length, occupied), delivers the oldest unread
\* samples, advances readPos by the returned count modulo BUFFER_SIZE,
\* returns 0 and leaves the cursors alone when it finds the buffer empty,
\* and never modifies writePos.
C4_ReadReturnsOldest ==
  /\ [][(consumer.pc # "idle" /\ consumer'.pc = "idle") =>
         LET n == ReadExpected
         IN /\ consumer'.ret = n
            /\ readLog' =
                 readLog \o SubSeq(written, Len(readLog) + 1, Len(readLog) + n)
            /\ readPos' = (readPos + n) % BUFFER_SIZE
            /\ (n = 0 => readPos' = readPos /\ writePos' = writePos)]_vars
  /\ [][consumer' # consumer => writePos' = writePos]_vars

\* A Read asked for more than the buffer held returned what there was, and
\* a Read of an empty buffer is covered by C4_WitnessEmpty.
C4_Witness ==
  /\ consumer.pc = "idle" /\ consumer.returned
  /\ consumer.ret > 0 /\ consumer.ret < consumer.requested
  /\ Len(readLog) > consumer.ret

C4_WitnessEmpty ==
  /\ consumer.pc = "idle" /\ consumer.returned
  /\ consumer.requested > 0 /\ consumer.ret = 0
  /\ Len(written) > 0

\* C5: at every quiescent point Available() equals the samples accepted by
\* Write minus the samples returned by Read; an Available() call during
\* which no sample was accepted or returned reports exactly that number; and
\* when the buffer is quiescent and drained, everything accepted was read.
C5_SampleConservation ==
  /\ [](Quiescent =>
         /\ Available(readPos, writePos) = Len(written) - Len(readLog)
         /\ (Available(readPos, writePos) = 0 => readLog = written))
  /\ [][(observer.pc = "loadWrite" /\ observer'.pc = "idle" /\ Quiescent) =>
         \A n \in 0..BUFFER_SIZE :
            observer.seen = {n} => observer'.ret = n]_vars

\* Available() has reported the BUFFER_SIZE - 1 samples of a full, wrapped
\* buffer at a quiescent point.
C5_Witness ==
  /\ Quiescent
  /\ observer.pc = "idle" /\ observer.returned
  /\ observer.ret = BUFFER_SIZE - 1
  /\ Occupancy = BUFFER_SIZE - 1
  /\ writePos < readPos

\* Producer stopped, consumer drained: all accepted samples were read.
C5_WitnessDrained ==
  /\ Quiescent
  /\ Len(written) = MaxSamples
  /\ readLog = written
  /\ observer.pc = "idle" /\ observer.returned /\ observer.ret = 0

\* ======================================================================
\* Properties of the worker
\* ======================================================================
\* The chunk the worker has popped and not yet finished processing.
InProcessing == IF worker.pc = "process" THEN <<worker.chunk>> ELSE <<>>

\* C6: chunks reach the processing step in the order EnqueueAudio appended
\* them, each at most once and one at a time: the chunks processed so far,
\* then the one in processing, then the queue, are exactly the chunks
\* enqueued, in order.
C6_FifoDispatch ==
  /\ IsPrefix(processed \o InProcessing, enqueued)
  /\ enqueued = processed \o InProcessing \o audioQueue
  /\ Len(InProcessing) <= 1

\* Chunk 1 was processed, chunk 2 is in processing and chunk 3 waits in the
\* queue: the worker fell behind.
C6_Witness ==
  /\ Len(processed) >= 1
  /\ worker.pc = "process"
  /\ Len(audioQueue) >= 1

\* C7 as claimed: when the wait ends the worker exits only if a stop was
\* requested and the queue is empty, and goes on to pop a chunk in every
\* other case.
C7_ExitsOnlyWhenDrained ==
  [][(worker.pc = "checkStop" /\ worker' # worker) =>
       IF stopRequested /\ audioQueue = <<>>
         THEN worker'.pc = "exited"
         ELSE worker'.pc = "pop"]_vars

\* C7 as amended: when the wait ends the worker exits if a stop was
\* requested, whether or not the queue is empty, leaving the queue as it is;
\* otherwise the queue is not empty and the worker pops exactly one chunk
\* from its head and processes it before it gets back to the wait.
C7_ExitsOnStop ==
  /\ [][(worker.pc = "checkStop" /\ worker' # worker) =>
         IF stopRequested
           THEN worker'.pc = "exited" /\ audioQueue' = audioQueue
           ELSE worker'.pc = "pop" /\ audioQueue # <<>>]_vars
  /\ [][(worker.pc = "pop" /\ worker' # worker) =>
         /\ audioQueue # <<>>
         /\ audioQueue' = Tail(audioQueue)
         /\ worker'.chunk = Head(audioQueue)
         /\ worker'.pc = "process"]_vars
  /\ [][(worker.pc = "process" /\ worker' # worker) =>
         /\ processed' = Append(processed, worker.chunk)
         /\ audioQueue' = audioQueue
         /\ worker'.pc = "loop"]_vars
  /\ [][(worker.pc # "wait" /\ worker'.pc = "wait") =>
         worker.pc \in {"lock", "woken"}]_vars

\* The wait ended with a stop requested and a chunk in the queue, and the
\* worker exited there, leaving the chunk behind.
C7_Witness ==
  /\ worker.pc = "exited" /\ worker.exitLine = 34
  /\ audioQueue # <<>>
  /\ Len(processed) >= 1

\* C8: once the worker has observed the stop flag no chunk is popped and
\* no chunk is handed to the processing step any more; the queue keeps what
\* it held.
C8_StopDoesNotDrain ==
  /\ [][worker.sawStop =>
         (processed' = processed /\ IsPrefix(audioQueue, audioQueue'))]_vars
  /\ [](worker.sawStop => worker.pc \in {"checkStop", "exited"})

\* Stop has returned, a chunk was processed before, and a chunk that was
\* queued when the worker saw the flag is still in the queue.
C8_Witness ==
  /\ owner.stopReturns >= 1
  /\ worker.pc = "exited"
  /\ audioQueue # <<>>
  /\ Len(processed) >= 1

\* A call of Stop is running.
StopInProgress ==
  owner.pc \in {"s_lock", "s_set", "s_notify", "s_joinable", "s_join"}

\* C9: under fair scheduling, with a processing step that returns, every
\* call of Stop returns, and once a Stop has returned the worker thread has
\* exited and is joined.
C9_StopTerminates ==
  /\ StopInProgress ~> ~StopInProgress
  /\ [](owner.stopReturns > 0 => (worker.pc = "exited" /\ joined))

\* Stop was called while the worker was suspended in the wait, and returned.
C9_Witness ==
  /\ owner.stopReturns = 1 /\ owner.pc = "idle"
  /\ owner.calledAt = "blocked"
  /\ worker.pc = "exited"

\* ... while the worker was processing a chunk.
C9_WitnessProcessing ==
  /\ owner.stopReturns = 1 /\ owner.pc = "idle"
  /\ owner.calledAt = "process"

\* ... while the worker held the mutex.
C9_WitnessLocked ==
  /\ owner.stopReturns = 1 /\ owner.pc = "idle"
  /\ owner.calledAt \in {"wait", "checkStop", "pop"}

\* ... while the worker was between two iterations.
C9_WitnessLoop ==
  /\ owner.stopReturns = 1 /\ owner.pc = "idle"
  /\ owner.calledAt \in {"loop", "lock"}

\* C10: a Stop called after a Stop has returned never waits in join and
\* changes neither the stop flag, nor the queue, nor the worker: they stay
\* as the first call left them.
C10_StopIdempotent ==
  [][(owner.stopReturns > 0 /\ owner' # owner) =>
       /\ stopRequested /\ stopRequested'
       /\ audioQueue' = audioQueue
       /\ worker' = worker /\ worker.pc = "exited"
       /\ joined /\ joined'
       /\ processed' = processed
       /\ owner'.pc # "s_join"]_vars

\* An explicit Stop returned, then the destructor's Stop returned too.
C10_Witness ==
  /\ owner.pc = "destroyed"
  /\ owner.stopReturns >= 2

\* ======================================================================
\* Properties of the session
\* ======================================================================
\* C16: over any sequence of loadModel, transcribe, destroy and destructor
\* calls every context is freed at most once, no freed context is freed or
\* passed to inference again, the context the session holds is always a
\* loaded and not yet freed one, and transcribe fails with 'Model not
\* loaded' exactly when no context is held.
C16_ContextLifecycle ==
  /\ \A c \in CtxIds : heap[c].frees <= 1 /\ (heap[c].frees = 1 => heap[c].allocated)
  /\ ~sessionLog.misuse
  /\ ctx # 0 => Live(heap, ctx)
  /\ sessionLog.op = "transcribe" =>
       /\ (sessionLog.result = "Model not loaded") <=> (ctx = 0)
       /\ sessionLog.result \in {"segments", "Transcription failed"} =>
            /\ sessionLog.inferred # <<>>
            /\ sessionLog.inferred[Len(sessionLog.inferred)] = ctx

\* A second load replaced the first context, inference ran, destroy freed
\* the second context, and a later transcribe was refused.
C16_Witness ==
  /\ sessionLog.op = "transcribe"
  /\ sessionLog.result = "Model not loaded"
  /\ heap[1].frees = 1 /\ heap[2].frees = 1
  /\ sessionLog.inferred # <<>>

\* ======================================================================
\* Further properties of the worker
\* ======================================================================
\* The chunk an EnqueueAudio call in progress is about to append.
GivenChunk == [data |-> client.data, timestamp |-> client.timestamp]

\* Chunks the worker has taken out of the queue.
Popped == Len(processed) + Len(InProcessing)

\* C11: once a Stop has returned no chunk is dispatched to the processing
\* step and none is popped, whatever EnqueueAudio calls follow; those calls
\* are accepted: their chunk is appended to the queue and stays there.
C11_NoDispatchAfterStop ==
  /\ [][owner.stopReturns > 0 =>
         (processed' = processed /\ IsPrefix(audioQueue, audioQueue'))]_vars
  /\ [][(owner.stopReturns > 0 /\ client.pc = "e_emplace"
         /\ client' # client) =>
         audioQueue' = Append(audioQueue, GivenChunk)]_vars

\* An EnqueueAudio call that began after Stop had returned has completed and
\* its chunk is the last one of the queue.
C11_Witness ==
  /\ owner.stopReturns >= 1
  /\ client.afterStop /\ client.pc = "idle"
  /\ audioQueue # <<>>
  /\ audioQueue[Len(audioQueue)].timestamp = Len(enqueued)
  /\ Len(enqueued) > Popped

\* C12: every EnqueueAudio call, in every state of the worker, appends
\* exactly one chunk with the given samples and timestamp at the tail of the
\* queue, and the queue length, which GetQueueSize returns, is the number of
\* chunks enqueued minus the number popped by the worker.
C12_EnqueueNeverRejects ==
  /\ [][(client.pc = "e_emplace" /\ client' # client) =>
         /\ audioQueue' = Append(audioQueue, GivenChunk)
         /\ client'.pc = "e_unlock"]_vars
  /\ [](Len(audioQueue) = Len(enqueued) - Popped)
  /\ [][(client.pc = "g_size" /\ client' # client) =>
         client'.ret = Len(enqueued) - Popped]_vars

\* With the worker joined, a chunk was enqueued and GetQueueSize reported it.
C12_Witness ==
  /\ joined
  /\ client.afterStop /\ client.pc = "idle"
  /\ Len(enqueued) = MaxChunks
  /\ client.ret = Len(audioQueue) /\ client.ret >= 1

\* The lifecycle state of the worker.
WorkerState ==
  IF joined THEN "Stopped"
  ELSE IF stopRequested THEN "StopRequested"
  ELSE "Running"

\* C13: the worker starts Running and only moves Running -> StopRequested
\* -> Stopped; the stop flag is never reset, and a worker thread that has
\* exited never runs again.
C13_OneWayLifecycle ==
  /\ WorkerState = "Running"
  /\ [][/\ WorkerState = "Running" =>
              WorkerState' \in {"Running", "StopRequested"}
        /\ WorkerState = "StopRequested" =>
              WorkerState' \in {"StopRequested", "Stopped"}
        /\ WorkerState = "Stopped" => WorkerState' = "Stopped"]_vars
  /\ [][stopRequested => stopRequested']_vars
  /\ [][worker.pc = "exited" => worker' = worker]_vars
  /\ [](joined => (stopRequested /\ worker.pc = "exited"))

\* Stopped, after every Stop call was made and a later EnqueueAudio and
\* GetQueueSize call went through.
C13_Witness ==
  /\ WorkerState = "Stopped"
  /\ owner.stopCalls = MaxStops /\ owner.pc = "idle"
  /\ client.afterStop /\ client.pc = "idle" /\ client.ret >= 1

\* C17: the worker holds the mutex only between taking it and the pop,
\* never while a chunk is processed, so that a client waiting for the mutex
\* during processing can take it unless the owner thread holds it.
C17_UnlockedWhileProcessing ==
  /\ worker.pc = "process" => queueMutex # "worker"
  /\ queueMutex = "worker" <=> worker.pc \in {"wait", "checkStop", "pop"}
  /\ (worker.pc = "process" /\ client.pc = "e_lock" /\ queueMutex # "owner")
       => ENABLED EnqueueLock
  /\ (worker.pc = "process" /\ client.pc = "g_lock" /\ queueMutex # "owner")
       => ENABLED GetQueueSizeLock

\* While a chunk is in processing, EnqueueAudio took the mutex and appended
\* a chunk.
C17_Witness ==
  /\ worker.pc = "process"
  /\ client.pc = "e_unlock" /\ queueMutex = "client"
  /\ audioQueue # <<>>

\* Stop or the destructor has been called.
StopCalled ==
  owner.stopCalls > 0 \/ owner.inDestructor \/ owner.pc = "destroyed"

\* C19: under fair scheduling, with a processing step that returns, every
\* chunk appended by EnqueueAudio is eventually dispatched unless Stop is
\* called, and the worker is never suspended with a non-empty queue.
C19_NoLostWakeup ==
  /\ \A k \in 1..MaxChunks :
       (Len(enqueued) >= k) ~> (Len(processed) >= k \/ StopCalled)
  /\ [](worker.pc = "blocked" => audioQueue = <<>>)

\* Every chunk was dispatched without any Stop, and the worker is suspended
\* again.
C19_Witness ==
  /\ Len(processed) = MaxChunks
  /\ ~StopCalled
  /\ worker.pc = "blocked"

\* C20: every access to the stop flag and to the queue is made with the
\* mutex held: the client holds it in emplace / size, the owner holds it when
\* it sets the flag, and the worker is never about to read the flag while
\* the owner is about to write it.
C20_SharedStateUnderMutex ==
  /\ client.pc \in {"e_emplace", "g_size"} => queueMutex = "client"
  /\ owner.pc = "s_set" => queueMutex = "owner"
  /\ worker.pc \in {"wait", "checkStop", "pop"} => queueMutex = "worker"
  /\ ~(owner.pc = "s_set" /\ worker.pc \in {"loop", "wait", "checkStop"})

\* ======================================================================
\* Further properties of the ring buffer
\* ======================================================================
\* Samples accepted, and samples read, since the last Clear.
WrittenSinceClear == SubSeq(written, cleared.w + 1, Len(written))

ReadSinceClear == SubSeq(readLog, cleared.r + 1, Len(readLog))

\* C15: a Clear made with no Write or Read in progress leaves both cursors
\* at 0 and Available() = 0; from then on the buffer behaves as a new one:
\* the samples read are the samples accepted since the Clear, in order, and
\* at rest the cursors and Available() are those of a new buffer that took
\* the same calls.
C15_ClearResets ==
  /\ [][cleared' # cleared =>
         /\ writePos' = 0 /\ readPos' = 0
         /\ Available(readPos', writePos') = 0
         /\ written' = written /\ readLog' = readLog]_vars
  /\ [](IsPrefix(ReadSinceClear, WrittenSinceClear))
  /\ [](Quiescent =>
         /\ writePos = Len(WrittenSinceClear) % BUFFER_SIZE
         /\ readPos = Len(ReadSinceClear) % BUFFER_SIZE
         /\ Available(readPos, writePos) =
              Len(WrittenSinceClear) - Len(ReadSinceClear))

\* A Clear discarded unread samples, and samples accepted after it were
\* read back.
C15_Witness ==
  /\ Quiescent
  /\ cleared.w > cleared.r + 1
  /\ Len(ReadSinceClear) >= 2
  /\ ReadSinceClear = WrittenSinceClear

\* C18 as stated: the value Available() returns is an occupancy the buffer
\* had at some instant between the start and the end of the call.
C18_NeverFabricated ==
  [][(observer.pc = "loadWrite" /\ observer'.pc = "idle") =>
       observer'.ret \in observer.seen]_vars

\* C18, amended: Available() returns a value in 0..BUFFER_SIZE-1, and when
\* readPos still has the value the call loaded at the moment it loads
\* writePos, the value returned is the occupancy at that moment, which is
\* one the buffer had during the call.
C18_ExactUnlessReadPublished ==
  [][(observer.pc = "loadWrite" /\ observer'.pc = "idle") =>
       /\ observer'.ret \in 0..(BUFFER_SIZE - 1)
       /\ readPos = observer.currentRead =>
            /\ observer'.ret = Occupancy
            /\ observer'.ret \in observer.seen]_vars

\* Available() is about to load writePos after the producer published a
\* Write during the call, with readPos as the call loaded it and the buffer
\* wrapped.
C18_Witness ==
  /\ observer.pc = "loadWrite"
  /\ readPos = observer.currentRead
  /\ Cardinality(observer.seen) >= 2
  /\ writePos < readPos
  /\ Available(observer.currentRead, writePos) = Occupancy

====
